---- MODULE Spec2Model ----
(***************************************************************************)
(* MDIC - Manufacturing Decision Impact Calculator.                        *)
(*                                                                         *)
(* A model of the React component MDIC (src/unnamed/part_000, the only     *)
(* copy that carries the delay-capex formula): its useState cells, its     *)
(* four useMemo cells with their dependency arrays, the readiness flag and *)
(* the rendered results panel.  Every event handler (a decision selection, *)
(* a Field edit) commits one state cell and re-renders synchronously.      *)
(*                                                                         *)
(* Numbers are exact rationals [n, d] in lowest terms with d > 0; the      *)
(* non-finite JavaScript numbers and strings are separate kinds of value.  *)
(***************************************************************************)
EXTENDS Integers, Sequences, FiniteSets, TLC

VARIABLES decision, fields, baseline, overtimeCalc, delayCapexCalc, active,
          isReady, panel, edits, numCall, numResult

\* The mounted component, and one call of the helper num on its own.
component == <<decision, fields, baseline, overtimeCalc, delayCapexCalc,
               active, isReady, panel, edits>>
vars == <<component, numCall, numResult>>

\* Number of Field edits explored from the initial render.
MaxEdits == 2

-----------------------------------------------------------------------------
(* Exact rational arithmetic (the finite JavaScript numbers).              *)

Abs(i) == IF i < 0 THEN -i ELSE i

RECURSIVE GCD(_, _)
GCD(a, b) == IF b = 0 THEN a ELSE GCD(b, a % b)

\* n/d in lowest terms, d > 0.
Rat(n, d) ==
    LET g == GCD(Abs(n), Abs(d))
        s == IF d < 0 THEN -1 ELSE 1
    IN  [n |-> (s * n) \div g, d |-> (s * d) \div g]

R(i) == [n |-> i, d |-> 1]

RAdd(a, b) == Rat(a.n * b.d + b.n * a.d, a.d * b.d)
RNeg(a)    == [n |-> -a.n, d |-> a.d]
RSub(a, b) == RAdd(a, RNeg(b))
RMul(a, b) == LET x == Rat(a.n, b.d)
                  y == Rat(b.n, a.d)
              IN  [n |-> x.n * y.n, d |-> x.d * y.d]
\* b is never zero where the component divides (100, 52, or a horizon > 0).
RDiv(a, b) == RMul(a, Rat(b.d, b.n))
RLt(a, b)  == a.n * b.d < b.n * a.d
RLe(a, b)  == a.n * b.d <= b.n * a.d
RPos(a)    == a.n > 0
RAbs(a)    == [n |-> Abs(a.n), d |-> a.d]
\* Math.max(a, b)
RMax(a, b) == IF RLt(a, b) THEN b ELSE a
\* Math.round(a): the nearest integer, ties towards +Infinity.
RRound(a)  == (2 * a.n + a.d) \div (2 * a.d)
\* Nearest integer to a >= 0, ties away from zero (Intl.NumberFormat).
RHalfExpand(a) == (2 * a.n + a.d) \div (2 * a.d)

-----------------------------------------------------------------------------
(* JavaScript values: a finite number, NaN, +/-Infinity, or a string.      *)

Num(q)  == [k |-> "num",  q |-> q,    s |-> ""]
NaN     == [k |-> "nan",  q |-> R(0), s |-> ""]
PosInf  == [k |-> "inf",  q |-> R(0), s |-> ""]
NegInf  == [k |-> "ninf", q |-> R(0), s |-> ""]
Str(s)  == [k |-> "str",  q |-> R(0), s |-> s]
\* The empty string: the marker a Field stores while the input is empty.
Empty   == Str("")

\* The numeric literals of the model and their values.
Literal(s) ==
    CASE s = "0"      -> R(0)
      [] s = "1"      -> R(1)
      [] s = "2"      -> R(2)
      [] s = "4"      -> R(4)
      [] s = "5"      -> R(5)
      [] s = "6"      -> R(6)
      [] s = "8"      -> R(8)
      [] s = "10"     -> R(10)
      [] s = "12"     -> R(12)
      [] s = "20"     -> R(20)
      [] s = "35"     -> R(35)
      [] s = "40"     -> R(40)
      [] s = "50"     -> R(50)
      [] s = "-1"     -> R(-1)
      [] s = "-2"     -> R(-2)
      [] s = "-3"     -> R(-3)
      [] s = "-5"     -> R(-5)
      [] s = "-7"     -> R(-7)
      [] s = "0.2"    -> Rat(1, 5)
      [] s = "0.5"    -> Rat(1, 2)
      [] s = "-0.5"   -> Rat(-1, 2)
      [] s = "1.5"    -> Rat(3, 2)
      [] s = "50000"  -> R(50000)
      [] s = "100000" -> R(100000)
      [] s = "40000"  -> R(40000)
      [] s = "52000"  -> R(52000)
      [] s = "-5200"  -> R(-5200)

Literals == {"0", "1", "2", "4", "5", "6", "8", "10", "12", "20", "35", "40",
             "50", "-1", "-2", "-3", "-5", "-7", "0.2", "0.5", "-0.5", "1.5",
             "50000", "100000", "40000", "52000", "-5200"}

\* StringToNumber: an empty or blank string is 0, a numeric literal is its
\* value, "Infinity" is +Infinity, any other string is NaN.
StringToNumber(s) ==
    CASE s \in {"", " "}  -> Num(R(0))
      [] s \in Literals   -> Num(Literal(s))
      [] s = "Infinity"   -> PosInf
      [] s = "-Infinity"  -> NegInf
      [] OTHER            -> NaN

\* Number(v)
Number(v) == IF v.k = "str" THEN StringToNumber(v.s) ELSE v

\* Number.isFinite(n)
IsFinite(n) == n.k = "num"

\* The value handed on as it is stored, with no coercion.
numUncoerced(v, fallback) == v

\* function num(v, fallback = 0)
num(v, fallback) ==
    LET n == Number(v) IN IF IsFinite(n) THEN n ELSE fallback

\* num(v) with the default fallback 0, as a rational: the result is finite.
N(v) == num(v, Num(R(0))).q

-----------------------------------------------------------------------------
(* Display strings.                                                        *)

\* A rendered number: its format, its sign and its magnitude (cents for a
\* currency amount, units for a rounded integer, n/d for String(x)).
Shown(fmt, neg, n, d) == [fmt |-> fmt, neg |-> neg, n |-> n, d |-> d]

\* function money(n): "$0" for a non-finite value, otherwise the amount as
\* currency: two fraction digits, a minus sign for a negative amount.
money(n) ==
    LET v == Number(n)
    IN  IF ~IsFinite(v) THEN Shown("$0", FALSE, 0, 1)
        ELSE Shown("currency", v.q.n < 0,
                   RHalfExpand(RMul(RAbs(v.q), R(100))), 1)

\* Math.round(x).toLocaleString()
RoundedUnits(q) ==
    LET r == RRound(q) IN Shown("integer", r < 0, Abs(r), 1)

\* String(x) of a finite number
String(q) == Shown("number", q.n < 0, Abs(q.n), q.d)

-----------------------------------------------------------------------------
(* The component's state cells.                                            *)

DECISIONS == {"overtime", "temp", "headcount", "deferpm", "rate", "capex"}

CommonFields   == {"horizonWeeks", "runtimePerWeek", "baselineUnitsPerHr",
                   "laborRate", "overheadPct", "sellPrice", "cmPct"}
OvertimeFields == {"otHours", "otPremium", "fatiguePerfDeltaPct",
                   "fatigueScrapDeltaPp", "fatigueDowntimeDeltaHr"}
CapexFields    == {"capexAmount", "annualSavings", "deploymentLeadWeeks",
                   "costOfCapitalPct"}
FieldNames     == CommonFields \cup OvertimeFields \cup CapexFields

\* The useState initial values.
Defaults ==
    [horizonWeeks           |-> Num(R(6)),
     runtimePerWeek         |-> Num(R(40)),
     baselineUnitsPerHr     |-> Num(R(50)),
     laborRate              |-> Num(R(35)),
     sellPrice              |-> Num(R(0)),
     cmPct                  |-> Num(R(35)),
     overheadPct            |-> Num(R(0)),
     otHours                |-> Num(R(10)),
     otPremium              |-> Num(Rat(3, 2)),
     fatiguePerfDeltaPct    |-> Num(R(-3)),
     fatigueScrapDeltaPp    |-> Num(Rat(1, 2)),
     fatigueDowntimeDeltaHr |-> Num(Rat(1, 5)),
     capexAmount            |-> Num(R(100000)),
     annualSavings          |-> Num(R(40000)),
     deploymentLeadWeeks    |-> Num(R(8)),
     costOfCapitalPct       |-> Num(R(10))]

\* The Fields on screen: the common card always, the overtime card and the
\* delay-capex card only under their decision.
VisibleFields(d) ==
    CommonFields
      \cup (IF d = "overtime" THEN OvertimeFields ELSE {})
      \cup (IF d = "capex" THEN CapexFields ELSE {})

\* What the user types into a number input: e.target.value is "" (empty or
\* not a number) or a valid floating-point literal.
Typed(f) ==
    CASE f = "horizonWeeks"           -> {"", "6", "0", "2", "-2"}
      [] f = "runtimePerWeek"         -> {"", "40", "50", "-1"}
      [] f = "baselineUnitsPerHr"     -> {"", "50", "0", "40"}
      [] f = "laborRate"              -> {"", "35", "20", "-5"}
      [] f = "overheadPct"            -> {"", "0", "20"}
      [] f = "sellPrice"              -> {"", "0", "10", "-1"}
      [] f = "cmPct"                  -> {"", "35", "50"}
      [] f = "otHours"                -> {"10", "0", "4"}
      [] f = "otPremium"              -> {"", "1.5", "2"}
      [] f = "fatiguePerfDeltaPct"    -> {"-3", "0", "5"}
      [] f = "fatigueScrapDeltaPp"    -> {"", "0.5", "-1"}
      [] f = "fatigueDowntimeDeltaHr" -> {"0.2", "-0.5", "1"}
      [] f = "capexAmount"            -> {"100000", "0", "50000"}
      [] f = "annualSavings"          -> {"", "40000", "52000", "-5200"}
      [] f = "deploymentLeadWeeks"    -> {"", "8", "2", "6", "-3"}
      [] f = "costOfCapitalPct"       -> {"10", "0", "5"}

\* Field.onChange: setValue(v === "" ? "" : Number(v))
Committed(v) == IF v = "" THEN Empty ELSE Number(Str(v))

-----------------------------------------------------------------------------
(* The memoized calculations.                                              *)

\* useMemo: the previous value while the dependency array is unchanged
\* (Object.is, element by element), a fresh computation otherwise.
UseMemo(prev, deps, value) ==
    IF prev.deps = deps THEN prev ELSE [deps |-> deps, val |-> value]

\* const baseline = useMemo(() => {...}, [...])
BaselineDeps(f) ==
    <<f.baselineUnitsPerHr, f.runtimePerWeek, f.sellPrice, f.cmPct>>

ComputeBaseline(f) ==
    LET units          == RMul(N(f.baselineUnitsPerHr), N(f.runtimePerWeek))
        goodUnitsPerHr == N(f.baselineUnitsPerHr)
        cm             == RDiv(N(f.cmPct), R(100))
        oppCostPerHr   == RMul(RMul(goodUnitsPerHr, N(f.sellPrice)), cm)
    IN  [units |-> units, goodUnitsPerHr |-> goodUnitsPerHr, cm |-> cm,
         oppCostPerHr |-> oppCostPerHr]

\* The dependency array without baseline.units and baseline.cm.
OvertimeDepsNoBaseline(f, b) ==
    <<f.baselineUnitsPerHr, f.sellPrice, f.overheadPct,
      f.otHours, f.laborRate, f.otPremium, f.fatiguePerfDeltaPct,
      f.fatigueScrapDeltaPp, f.fatigueDowntimeDeltaHr, f.horizonWeeks>>

\* const overtimeCalc = useMemo(() => {...}, [...])
OvertimeDeps(f, b) ==
    <<b.units, b.cm, f.baselineUnitsPerHr, f.sellPrice, f.overheadPct,
      f.otHours, f.laborRate, f.otPremium, f.fatiguePerfDeltaPct,
      f.fatigueScrapDeltaPp, f.fatigueDowntimeDeltaHr, f.horizonWeeks>>

\* The labor cost without the overtime premium.
OtLaborCostNoPremium(f) ==
    LET oh == RAdd(R(1), RDiv(N(f.overheadPct), R(100)))
    IN  RMul(RMul(N(f.otHours), N(f.laborRate)), oh)

\* The overhead add-on taken from the cost-of-capital percentage.
OtLaborCostWrongPct(f) ==
    LET oh == RAdd(R(1), RDiv(N(f.costOfCapitalPct), R(100)))
    IN  RMul(RMul(RMul(N(f.otHours), N(f.laborRate)), N(f.otPremium)), oh)

\* const oh = ...; const otLaborCost = ...
OtLaborCost(f) ==
    LET oh == RAdd(R(1), RDiv(N(f.overheadPct), R(100)))
    IN  RMul(RMul(RMul(N(f.otHours), N(f.laborRate)), N(f.otPremium)), oh)

\* The scrap delta counted as a gain of good units.
DeltaGoodUnitsScrapAdded(perfDeltaUnits, scrapDeltaUnits, downtimeDeltaUnits) ==
    RSub(RAdd(perfDeltaUnits, scrapDeltaUnits), downtimeDeltaUnits)

\* const deltaGoodUnits = perfDeltaUnits - scrapDeltaUnits - downtimeDeltaUnits
DeltaGoodUnits(perfDeltaUnits, scrapDeltaUnits, downtimeDeltaUnits) ==
    RSub(RSub(perfDeltaUnits, scrapDeltaUnits), downtimeDeltaUnits)

\* The profit taken for any non-zero price, a negative one included.
ProfitFromUnitsAnyPrice(sellPrice, deltaGoodUnits, cm) ==
    IF sellPrice # R(0) THEN RMul(RMul(deltaGoodUnits, sellPrice), cm) ELSE R(0)

\* const profitFromUnits = num(sellPrice) > 0 ? ... : 0
ProfitFromUnits(sellPrice, deltaGoodUnits, cm) ==
    IF RPos(sellPrice) THEN RMul(RMul(deltaGoodUnits, sellPrice), cm) ELSE R(0)

\* The weekly impact taken over a 52-week year instead of the horizon.
TotalImpactOverYear(netImpactPerWeek, horizon) == RMul(netImpactPerWeek, R(52))

\* const totalImpact = netImpactPerWeek * num(horizonWeeks)
TotalImpact(netImpactPerWeek, horizon) == RMul(netImpactPerWeek, horizon)

ComputeOvertimeCalc(f, b) ==
    LET otLaborCost == OtLaborCost(f)
        perfDeltaUnits ==
            RMul(b.units, RDiv(N(f.fatiguePerfDeltaPct), R(100)))
        scrapDeltaUnits ==
            RMul(b.units, RDiv(N(f.fatigueScrapDeltaPp), R(100)))
        downtimeDeltaUnits ==
            RMul(N(f.fatigueDowntimeDeltaHr), N(f.baselineUnitsPerHr))
        deltaGoodUnits ==
            DeltaGoodUnits(perfDeltaUnits, scrapDeltaUnits, downtimeDeltaUnits)
        profitFromUnits ==
            ProfitFromUnits(N(f.sellPrice), deltaGoodUnits, b.cm)
        netImpactPerWeek == RSub(profitFromUnits, otLaborCost)
        totalImpact      == TotalImpact(netImpactPerWeek, N(f.horizonWeeks))
    IN  [otLaborCost        |-> otLaborCost,
         perfDeltaUnits     |-> perfDeltaUnits,
         scrapDeltaUnits    |-> scrapDeltaUnits,
         downtimeDeltaUnits |-> downtimeDeltaUnits,
         deltaGoodUnits     |-> deltaGoodUnits,
         profitFromUnits    |-> profitFromUnits,
         netImpactPerWeek   |-> netImpactPerWeek,
         totalImpact        |-> totalImpact]

\* const delayCapexCalc = useMemo(() => {...}, [...])
DelayCapexDeps(f) ==
    <<f.horizonWeeks, f.capexAmount, f.annualSavings, f.deploymentLeadWeeks,
      f.costOfCapitalPct>>

\* The missed weeks without the floor at zero.
MissedBenefitWeeksNoFloor(horizon, lead) == RSub(horizon, lead)

\* const missedBenefitWeeks = Math.max(0, horizon - lead)
MissedBenefitWeeks(horizon, lead) == RMax(R(0), RSub(horizon, lead))

\* The headline with totalImpact as the lost savings, the sign not flipped.
HeadlineTotalNotNegated(horizon, lostSavings, carryingCost) ==
    [netImpactPerWeek |->
         IF RPos(horizon) THEN RNeg(RDiv(lostSavings, horizon)) ELSE R(0),
     totalImpact |-> lostSavings]

\* The headline numbers with the carrying cost folded in.
HeadlineWithCarryingCost(horizon, lostSavings, carryingCost) ==
    LET cost == RAdd(lostSavings, carryingCost)
    IN  [netImpactPerWeek |->
             IF RPos(horizon) THEN RNeg(RDiv(cost, horizon)) ELSE R(0),
         totalImpact |-> RNeg(cost)]

\* const netImpactPerWeek = ...; const totalImpact = ...: the lost savings
\* only, the carrying cost is left out of both.
Headline(horizon, lostSavings, carryingCost) ==
    [netImpactPerWeek |->
         IF RPos(horizon) THEN RNeg(RDiv(lostSavings, horizon)) ELSE R(0),
     totalImpact |-> RNeg(lostSavings)]

ComputeDelayCapexCalc(f) ==
    LET horizon        == N(f.horizonWeeks)
        lead           == N(f.deploymentLeadWeeks)
        savingsPerWeek == RDiv(N(f.annualSavings), R(52))
        missedBenefitWeeks       == MissedBenefitWeeks(horizon, lead)
        lostSavingsWithinHorizon == RMul(savingsPerWeek, missedBenefitWeeks)
        costOfCapitalPerWeek ==
            RDiv(RDiv(N(f.costOfCapitalPct), R(100)), R(52))
        carryingCostWithinHorizon ==
            RMul(RMul(N(f.capexAmount), costOfCapitalPerWeek), horizon)
        headline ==
            Headline(horizon, lostSavingsWithinHorizon,
                     carryingCostWithinHorizon)
        netImpactPerWeek == headline.netImpactPerWeek
        totalImpact      == headline.totalImpact
    IN  [capexAmount               |-> N(f.capexAmount),
         annualSavings             |-> N(f.annualSavings),
         deploymentLeadWeeks       |-> N(f.deploymentLeadWeeks),
         costOfCapitalPct          |-> N(f.costOfCapitalPct),
         missedBenefitWeeks        |-> missedBenefitWeeks,
         lostSavingsWithinHorizon  |-> lostSavingsWithinHorizon,
         carryingCostWithinHorizon |-> carryingCostWithinHorizon,
         netImpactPerWeek          |-> netImpactPerWeek,
         totalImpact               |-> totalImpact]

\* JavaScript null: "no active result".
Null == [null |-> TRUE]

\* const active = useMemo(() => {...}, [decision, overtimeCalc, delayCapexCalc]).
\* A memoized object keeps its identity exactly while its own dependency
\* array is unchanged, so the array stands for the identity here.
ActiveDeps(d, o, c) == <<d, o.deps, c.deps>>

\* The dispatcher of the copies that precede the delay-capex formula.
ComputeActiveOvertimeOnly(d, o, c) ==
    IF d = "overtime" THEN o.val ELSE Null

ComputeActive(d, o, c) ==
    IF d = "overtime" THEN o.val
    ELSE IF d = "capex" THEN c.val
    ELSE Null

\* Readiness that forgets the labor rate.
ComputeIsReadyNoLaborRate(f) ==
    /\ RPos(N(f.horizonWeeks))
    /\ RPos(N(f.runtimePerWeek))
    /\ RPos(N(f.baselineUnitsPerHr))

\* const isReady = ...
ComputeIsReady(f) ==
    /\ RPos(N(f.horizonWeeks))
    /\ RPos(N(f.runtimePerWeek))
    /\ RPos(N(f.baselineUnitsPerHr))
    /\ RPos(N(f.laborRate))

-----------------------------------------------------------------------------
(* The results panel.                                                      *)

KPI(title, value) == [title |-> title, value |-> value]

\* The summary without Math.abs in the "cost" wording.
SummaryNoAbs(a) ==
    IF RLe(R(0), a.netImpactPerWeek)
    THEN [wording |-> "improve results by",
          amount  |-> money(Num(a.netImpactPerWeek))]
    ELSE [wording |-> "cost",
          amount  |-> money(Num(a.netImpactPerWeek))]

\* The "Decision summary" sentence.
Summary(a) ==
    IF RLe(R(0), a.netImpactPerWeek)
    THEN [wording |-> "improve results by",
          amount  |-> money(Num(a.netImpactPerWeek))]
    ELSE [wording |-> "cost",
          amount  |-> money(Num(RAbs(a.netImpactPerWeek)))]

\* The table rows under the KPIs: the component defines Row and renders none.
Rows(d, a) == << >>

\* The "Results" card: the prompt, or the KPIs, the rows and the summary.
ResultsPanel(d, ready, a) ==
    IF ~ready \/ a = Null
    THEN [view |-> "prompt", kpis |-> << >>, rows |-> << >>,
          summary |-> [wording |-> "", amount |-> Shown("", FALSE, 0, 1)]]
    ELSE [view |-> "results",
          kpis |->
              <<KPI("Net impact / week", money(Num(a.netImpactPerWeek))),
                KPI("Total impact (horizon)", money(Num(a.totalImpact)))>>
              \o (IF d = "capex"
                  THEN <<KPI("Missed benefit weeks",
                             String(a.missedBenefitWeeks)),
                         KPI("Lost savings (within horizon)",
                             money(Num(a.lostSavingsWithinHorizon)))>>
                  ELSE <<KPI("OT labor cost / week",
                             money(Num(a.otLaborCost))),
                         KPI("Delta good units / week",
                             RoundedUnits(a.deltaGoodUnits))>>),
          rows |-> Rows(d, a),
          summary |-> Summary(a)]

-----------------------------------------------------------------------------
(* Rendering and the event handlers.                                       *)

\* One render of MDIC with decision d and field values f, against the memo
\* cells of the previous render; the hooks run in source order.
Render(d, f) ==
    /\ baseline' = UseMemo(baseline, BaselineDeps(f), ComputeBaseline(f))
    /\ overtimeCalc' =
           UseMemo(overtimeCalc, OvertimeDeps(f, baseline'.val),
                   ComputeOvertimeCalc(f, baseline'.val))
    /\ delayCapexCalc' =
           UseMemo(delayCapexCalc, DelayCapexDeps(f), ComputeDelayCapexCalc(f))
    /\ active' =
           UseMemo(active, ActiveDeps(d, overtimeCalc', delayCapexCalc'),
                   ComputeActive(d, overtimeCalc', delayCapexCalc'))
    /\ isReady' = ComputeIsReady(f)
    /\ panel' = ResultsPanel(d, isReady', active'.val)

\* The first render: every memo cell is computed.
Mount ==
    /\ decision = "overtime"
    /\ fields = Defaults
    /\ baseline = [deps |-> BaselineDeps(fields),
                   val  |-> ComputeBaseline(fields)]
    /\ overtimeCalc = [deps |-> OvertimeDeps(fields, baseline.val),
                       val  |-> ComputeOvertimeCalc(fields, baseline.val)]
    /\ delayCapexCalc = [deps |-> DelayCapexDeps(fields),
                         val  |-> ComputeDelayCapexCalc(fields)]
    /\ active = [deps |-> ActiveDeps(decision, overtimeCalc, delayCapexCalc),
                 val  |-> ComputeActive(decision, overtimeCalc,
                                        delayCapexCalc)]
    /\ isReady = ComputeIsReady(fields)
    /\ panel = ResultsPanel(decision, isReady, active.val)
    /\ edits = 0

\* No call of num has returned yet.
Pending == Str("pending")

Init ==
    /\ Mount
    /\ numCall = [v |-> Num(R(0)), fallback |-> Num(R(0))]
    /\ numResult = Pending

\* A selection that also puts every input back to its initial value.
SelectDecisionResetsInputs(d) ==
    /\ decision' = d
    /\ fields' = Defaults
    /\ UNCHANGED <<edits, numCall, numResult>>
    /\ Render(d, fields')

\* <select onChange={(e) => setDecision(e.target.value)}>
SelectDecision(d) ==
    /\ decision' = d
    /\ UNCHANGED <<fields, edits, numCall, numResult>>
    /\ Render(d, fields)

\* <Field value=... setValue=... /> onChange, for a Field on screen.
EditField(name, v) ==
    /\ edits < MaxEdits
    /\ name \in VisibleFields(decision)
    /\ fields' = [fields EXCEPT ![name] = Committed(v)]
    /\ edits' = edits + 1
    /\ UNCHANGED <<decision, numCall, numResult>>
    /\ Render(decision, fields')

Next ==
    \/ \E d \in DECISIONS : SelectDecision(d)
    \/ \E name \in FieldNames : \E v \in Typed(name) : EditField(name, v)

Spec == Init /\ [][Next]_vars

-----------------------------------------------------------------------------
(* The helper num called on its own, over every kind of argument.          *)

NumInputs ==
    {Empty, Str(" "), Str("abc"), Str("12"), Str("-7"), Str("1.5"),
     Str("Infinity"), Str("-Infinity"), NaN, PosInf, NegInf,
     Num(R(0)), Num(R(5)), Num(R(-3)), Num(Rat(3, 2))}

NumFallbacks == {Num(R(0)), Num(R(7)), Num(R(-1)), NaN, Empty}

InitNum ==
    /\ Mount
    /\ numCall \in [v : NumInputs, fallback : NumFallbacks]
    /\ numResult = Pending

CallNum ==
    /\ numResult = Pending
    /\ numResult' = num(numCall.v, numCall.fallback)
    /\ UNCHANGED <<component, numCall>>

NextNum == CallNum

SpecNum == InitNum /\ [][NextNum]_vars

-----------------------------------------------------------------------------
(* Properties.                                                             *)

\* The number a stored value stands for in a formula: itself when it is a
\* finite number or a numeric string, 0 when it is empty or not a number.
Val(v) ==
    IF v.k = "num" THEN v.q
    ELSE IF v.k = "str" /\ v.s \in Literals THEN Literal(v.s)
    ELSE R(0)

\* The four inputs the readiness flag reads.
Required == {"horizonWeeks", "runtimePerWeek", "baselineUnitsPerHr",
             "laborRate"}

\* v is a strictly positive finite number (or a string that spells one).
StrictlyPositive(v) ==
    \/ v.k = "num" /\ v.q.n > 0
    \/ v.k = "str" /\ v.s \in Literals /\ Literal(v.s).n > 0

\* C1: the readiness flag is true exactly when horizonWeeks, runtimePerWeek,
\* baselineUnitsPerHr and laborRate are all strictly positive numbers, and
\* when one of them is <= 0 or empty the results panel shows the prompt and
\* no record, whatever the decision and the other fields.
C1_Readiness ==
    /\ isReady <=> \A r \in Required : StrictlyPositive(fields[r])
    /\ (\E r \in Required : ~StrictlyPositive(fields[r]))
          => /\ panel.view = "prompt"
             /\ panel.kpis = << >>
             /\ panel.rows = << >>

\* C1 witness: under the delay-capex decision, with savings edited and the
\* labor rate emptied, the panel shows the prompt.
C1_Witness ==
    /\ decision = "capex"
    /\ fields.laborRate = Empty
    /\ fields.annualSavings = Num(R(52000))
    /\ ~isReady
    /\ panel.view = "prompt"

\* C2: the active record is the overtime record under "overtime", the
\* delay-capex record under "capex", and null (with the prompt on screen)
\* under each of the four other decisions, whatever the inputs and the
\* decision selected before.
C2_Dispatch ==
    /\ decision \in DECISIONS
    /\ decision = "overtime" => active.val = overtimeCalc.val
    /\ decision = "capex" => active.val = delayCapexCalc.val
    /\ decision \in {"temp", "headcount", "deferpm", "rate"}
          => active.val = Null /\ panel.view = "prompt"

\* C2 witness: the delay-capex record is active after edits made under it.
C2_Witness ==
    /\ decision = "capex"
    /\ edits = MaxEdits
    /\ fields.deploymentLeadWeeks = Num(R(2))
    /\ active.val = delayCapexCalc.val
    /\ active.val # Null
    /\ panel.view = "results"

\* C2, the inert decisions: null is active under "temp" after edits.
C2_WitnessInert ==
    /\ decision = "temp"
    /\ edits > 0
    /\ active.val = Null

\* C3 as stated: num(v, fallback) is fallback for every empty, non-numeric
\* or non-finite v and every fallback, and num(v) is v for a finite number.
C3_Coercion ==
    numResult # Pending =>
        /\ (\/ numCall.v = Empty
            \/ numCall.v.k \in {"nan", "inf", "ninf"}
            \/ numCall.v.k = "str" /\ ~IsFinite(StringToNumber(numCall.v.s)))
              => numResult = numCall.fallback
        /\ numCall.v.k = "num" => numResult = numCall.v

\* C4: after every event the memoized baseline, overtimeCalc, delayCapexCalc
\* and active equal their formulas applied to the current fields and
\* decision: no memo cell is stale.
C4_Fresh ==
    LET b == ComputeBaseline(fields)
        o == ComputeOvertimeCalc(fields, b)
        c == ComputeDelayCapexCalc(fields)
    IN  /\ baseline.val = b
        /\ overtimeCalc.val = o
        /\ delayCapexCalc.val = c
        /\ active.val = (IF decision = "overtime" THEN o
                         ELSE IF decision = "capex" THEN c ELSE Null)

\* C4 witness: runtimePerWeek and cmPct, which overtimeCalc reads only
\* through baseline, have both been edited under the overtime decision.
C4_Witness ==
    /\ decision = "overtime"
    /\ fields.runtimePerWeek = Num(R(50))
    /\ fields.cmPct = Num(R(50))
    /\ baseline.val.units = R(2500)
    /\ overtimeCalc.val.perfDeltaUnits = R(-75)

\* C3, the part that holds: away from the empty string (and the blank
\* string, which Number also reads as 0) num returns the fallback for every
\* non-numeric or non-finite value, and a finite number is returned as is.
C3_ExceptEmpty ==
    numResult # Pending =>
        /\ (\/ numCall.v.k \in {"nan", "inf", "ninf"}
            \/ numCall.v.k = "str" /\ ~IsFinite(StringToNumber(numCall.v.s)))
              => numResult = numCall.fallback
        /\ numCall.v.k = "num" => numResult = numCall.v
        /\ numCall.v \in {Empty, Str(" ")} => numResult = Num(R(0))

\* C5: in the initial state (default fields, decision "overtime") the
\* calculator is ready and the active overtime record has baseline units
\* 2000, otLaborCost 525, perfDeltaUnits -60, scrapDeltaUnits 10,
\* downtimeDeltaUnits 10, deltaGoodUnits -80, profitFromUnits 0,
\* netImpactPerWeek -525 and totalImpact -3150.
C5_Defaults ==
    (decision = "overtime" /\ fields = Defaults) =>
        /\ isReady
        /\ panel.view = "results"
        /\ baseline.val.units = R(2000)
        /\ active.val.otLaborCost = R(525)
        /\ active.val.perfDeltaUnits = R(-60)
        /\ active.val.scrapDeltaUnits = R(10)
        /\ active.val.downtimeDeltaUnits = R(10)
        /\ active.val.deltaGoodUnits = R(-80)
        /\ active.val.profitFromUnits = R(0)
        /\ active.val.netImpactPerWeek = R(-525)
        /\ active.val.totalImpact = R(-3150)

\* C5 witness: the state after the first render.
C5_Witness ==
    /\ edits = 0
    /\ decision = "overtime"
    /\ fields = Defaults
    /\ active.val = overtimeCalc.val
    /\ panel.kpis[1].value = Shown("currency", TRUE, 52500, 1)

\* C6: missedBenefitWeeks is max(0, horizonWeeks - deploymentLeadWeeks) and
\* never negative; when deploymentLeadWeeks >= horizonWeeks the missed weeks,
\* the lost savings, netImpactPerWeek and totalImpact are all zero, whatever
\* capexAmount, annualSavings and costOfCapitalPct are.
C6_MissedWeeks ==
    LET h == Val(fields.horizonWeeks)
        l == Val(fields.deploymentLeadWeeks)
        c == delayCapexCalc.val
    IN  /\ c.missedBenefitWeeks = (IF RLt(l, h) THEN RSub(h, l) ELSE R(0))
        /\ c.missedBenefitWeeks.n >= 0
        /\ RLe(h, l) =>
              /\ c.missedBenefitWeeks = R(0)
              /\ c.lostSavingsWithinHorizon = R(0)
              /\ c.netImpactPerWeek = R(0)
              /\ c.totalImpact = R(0)

\* C6 witness: the delay-capex record is on screen with a lead time equal to
\* the horizon and edited savings, and its headline is zero.
C6_Witness ==
    /\ decision = "capex"
    /\ panel.view = "results"
    /\ fields.deploymentLeadWeeks = Num(R(6))
    /\ fields.horizonWeeks = Num(R(6))
    /\ fields.annualSavings = Num(R(52000))
    /\ active.val.totalImpact = R(0)

\* Values a Field can commit to the named input.
Commits(name) == {Committed(v) : v \in Typed(name)}

\* C7: the delay-capex record carries carryingCostWithinHorizon =
\* capexAmount * (costOfCapitalPct/100/52) * horizonWeeks, and its
\* netImpactPerWeek and totalImpact do not depend on capexAmount or
\* costOfCapitalPct: any input set that differs from the current one only
\* in those two fields yields the same two headline numbers.
C7_CarryingCostExcluded ==
    /\ delayCapexCalc.val.carryingCostWithinHorizon =
           RMul(RMul(Val(fields.capexAmount),
                     RDiv(RDiv(Val(fields.costOfCapitalPct), R(100)), R(52))),
                Val(fields.horizonWeeks))
    /\ \A x \in Commits("capexAmount") : \A k \in Commits("costOfCapitalPct") :
          LET other == ComputeDelayCapexCalc(
                           [fields EXCEPT !.capexAmount = x,
                                          !.costOfCapitalPct = k])
          IN  /\ other.netImpactPerWeek = delayCapexCalc.val.netImpactPerWeek
              /\ other.totalImpact = delayCapexCalc.val.totalImpact

\* C7 witness: a displayed delay-capex record with a non-zero carrying cost
\* and a non-zero headline.
C7_Witness ==
    /\ decision = "capex"
    /\ panel.view = "results"
    /\ fields.capexAmount = Num(R(50000))
    /\ fields.deploymentLeadWeeks = Num(R(2))
    /\ active.val.carryingCostWithinHorizon.n > 0
    /\ active.val.netImpactPerWeek.n < 0

\* C8: when results are displayed the summary says "improve results by
\* money(netImpactPerWeek)" exactly when the active netImpactPerWeek >= 0 and
\* "cost money(|netImpactPerWeek|)" otherwise, and the amount in the "cost"
\* wording is never negative.
C8_Summary ==
    panel.view = "results" =>
        LET net == active.val.netImpactPerWeek
        IN  /\ panel.summary.wording \in {"improve results by", "cost"}
            /\ panel.summary.wording = "improve results by" <=> net.n >= 0
            /\ net.n >= 0 => panel.summary.amount = money(Num(net))
            /\ net.n < 0 =>
                  /\ panel.summary.amount = money(Num(RAbs(net)))
                  /\ ~panel.summary.amount.neg

\* C8 witness: a "cost" summary of a delay-capex record.
C8_Witness ==
    /\ panel.view = "results"
    /\ decision = "capex"
    /\ panel.summary.wording = "cost"
    /\ panel.summary.amount.n > 0

\* C8, the other wording: an "improve" summary with a positive amount.
C8_WitnessImprove ==
    /\ panel.view = "results"
    /\ panel.summary.wording = "improve results by"
    /\ panel.summary.amount.n > 0

\* C9 as stated: when results are displayed for the overtime decision the
\* panel holds, besides the KPIs, the breakdown rows of perfDeltaUnits,
\* scrapDeltaUnits, downtimeDeltaUnits (rounded units) and profitFromUnits
\* (currency).
C9_Breakdown ==
    (isReady /\ decision = "overtime") =>
        /\ panel.view = "results"
        /\ panel.rows =
               <<RoundedUnits(active.val.perfDeltaUnits),
                 RoundedUnits(active.val.scrapDeltaUnits),
                 RoundedUnits(active.val.downtimeDeltaUnits),
                 money(Num(active.val.profitFromUnits))>>

\* C10: the overtime record equals the reference computation on the coerced
\* inputs: baselineUnits = rate * runtime; otLaborCost = otHours * laborRate
\* * otPremium * (1 + overheadPct/100); perfDeltaUnits = baselineUnits *
\* perfPct/100; scrapDeltaUnits = baselineUnits * scrapPp/100;
\* downtimeDeltaUnits = downtimeHr * rate; deltaGoodUnits = perfDeltaUnits -
\* scrapDeltaUnits - downtimeDeltaUnits; netImpactPerWeek = profitFromUnits -
\* otLaborCost; totalImpact = netImpactPerWeek * horizonWeeks.
C10_OvertimeFormula ==
    LET rate    == Val(fields.baselineUnitsPerHr)
        units   == RMul(rate, Val(fields.runtimePerWeek))
        cost    == RMul(RMul(RMul(Val(fields.otHours), Val(fields.laborRate)),
                             Val(fields.otPremium)),
                        RAdd(R(1), RDiv(Val(fields.overheadPct), R(100))))
        perf    == RDiv(RMul(units, Val(fields.fatiguePerfDeltaPct)), R(100))
        scrap   == RDiv(RMul(units, Val(fields.fatigueScrapDeltaPp)), R(100))
        down    == RMul(Val(fields.fatigueDowntimeDeltaHr), rate)
        o       == overtimeCalc.val
    IN  /\ baseline.val.units = units
        /\ o.otLaborCost = cost
        /\ o.perfDeltaUnits = perf
        /\ o.scrapDeltaUnits = scrap
        /\ o.downtimeDeltaUnits = down
        /\ o.deltaGoodUnits = RSub(perf, RAdd(scrap, down))
        /\ o.netImpactPerWeek = RSub(o.profitFromUnits, cost)
        /\ o.totalImpact = RMul(o.netImpactPerWeek, Val(fields.horizonWeeks))

\* C10 witness: the defaults with sellPrice 10 give profitFromUnits -280,
\* netImpactPerWeek -805 and totalImpact -4830.
C10_Witness ==
    /\ decision = "overtime"
    /\ fields = [Defaults EXCEPT !.sellPrice = Num(R(10))]
    /\ active.val.profitFromUnits = R(-280)
    /\ active.val.netImpactPerWeek = R(-805)
    /\ active.val.totalImpact = R(-4830)

\* C10, a negative scrap delta is still subtracted: scrap -1 pp raises the
\* good units by 20.
C10_WitnessNegativeScrap ==
    /\ decision = "overtime"
    /\ fields = [Defaults EXCEPT !.fatigueScrapDeltaPp = Num(R(-1))]
    /\ overtimeCalc.val.scrapDeltaUnits = R(-20)
    /\ overtimeCalc.val.deltaGoodUnits = R(-50)


\* C11: profitFromUnits is deltaGoodUnits * sellPrice * (cmPct/100) when the
\* coerced sellPrice is > 0; when sellPrice is zero, negative or empty it is
\* 0 and netImpactPerWeek is -otLaborCost, whatever the fatigue deltas, the
\* contribution margin and the baseline throughput are.
C11_CostOnly ==
    LET price == Val(fields.sellPrice)
        o     == overtimeCalc.val
    IN  /\ price.n > 0 =>
              o.profitFromUnits =
                  RMul(RMul(o.deltaGoodUnits, price),
                       RDiv(Val(fields.cmPct), R(100)))
        /\ (fields.sellPrice.k # "num" \/ price.n <= 0) =>
              /\ o.profitFromUnits = R(0)
              /\ o.netImpactPerWeek = RNeg(o.otLaborCost)

\* C11 witness: a negative price with a positive good-units delta and a
\* non-zero labor cost: the record is cost-only.
C11_Witness ==
    /\ decision = "overtime"
    /\ fields.sellPrice = Num(R(-1))
    /\ overtimeCalc.val.deltaGoodUnits.n > 0
    /\ overtimeCalc.val.otLaborCost.n > 0
    /\ active.val.profitFromUnits = R(0)
    /\ active.val.netImpactPerWeek = RNeg(active.val.otLaborCost)

\* C11, the empty price: cost-only as well.
C11_WitnessEmpty ==
    /\ decision = "overtime"
    /\ fields.sellPrice = Empty
    /\ overtimeCalc.val.deltaGoodUnits.n # 0
    /\ active.val.netImpactPerWeek = RNeg(active.val.otLaborCost)

\* C11, a price: the profit term is live.
C11_WitnessPriced ==
    /\ fields.sellPrice = Num(R(10))
    /\ overtimeCalc.val.profitFromUnits.n # 0


\* C12: on the coerced inputs lostSavingsWithinHorizon = (annualSavings/52) *
\* missedBenefitWeeks, totalImpact = -lostSavingsWithinHorizon, and
\* netImpactPerWeek = -(lostSavingsWithinHorizon / horizonWeeks) when
\* horizonWeeks > 0 and 0 otherwise.
C12_CapexHeadline ==
    LET h    == Val(fields.horizonWeeks)
        c    == delayCapexCalc.val
        lost == RMul(RDiv(Val(fields.annualSavings), R(52)),
                     c.missedBenefitWeeks)
    IN  /\ c.lostSavingsWithinHorizon = lost
        /\ c.totalImpact = RNeg(lost)
        /\ h.n > 0 => RMul(c.netImpactPerWeek, h) = RNeg(lost)
        /\ h.n <= 0 => c.netImpactPerWeek = R(0)

\* C12 witness: horizon 6, annualSavings 40000, lead 2 give 4 missed weeks,
\* totalImpact -(40000*4/52) and netImpactPerWeek totalImpact/6.
C12_Witness ==
    /\ decision = "capex"
    /\ fields = [Defaults EXCEPT !.deploymentLeadWeeks = Num(R(2))]
    /\ active.val.missedBenefitWeeks = R(4)
    /\ active.val.totalImpact = Rat(-160000, 52)
    /\ active.val.netImpactPerWeek = Rat(-160000, 312)
    /\ panel.kpis[1].value = Shown("currency", TRUE, 51282, 1)
    /\ panel.kpis[2].value = Shown("currency", TRUE, 307692, 1)

\* C12, a horizon that is not positive: lost savings remain (the lead is
\* more negative still) and netImpactPerWeek is 0, nothing is divided.
C12_WitnessNoHorizon ==
    /\ Val(fields.horizonWeeks).n <= 0
    /\ delayCapexCalc.val.lostSavingsWithinHorizon.n > 0
    /\ delayCapexCalc.val.netImpactPerWeek = R(0)


\* The field values with every value that is not a finite number set to 0.
Zeroed(f) ==
    [name \in DOMAIN f |-> IF f[name].k = "num" THEN f[name] ELSE Num(R(0))]

\* Every number of a record is finite (a rational with a denominator > 0).
AllFinite(rec) == \A key \in DOMAIN rec : rec[key].d > 0

\* Stored values no Field commits: NaN, an infinity, a non-numeric string.
Invalid == {NaN, PosInf, NegInf, Str("abc")}

\* C13: every input a formula reads has been coerced to a finite number:
\* each stored value is read as itself when it is a finite number and as
\* exactly 0 when it is empty or otherwise invalid, every term of baseline,
\* overtimeCalc and delayCapexCalc is finite, and the records are those of
\* the same inputs with 0 in place of every unset value.  An invalid value
\* put in any one field reads as 0 as well (tried in every state within one
\* edit of the defaults, a Field never stores such a value).
C13_Coerced ==
    /\ \A name \in FieldNames :
          LET c == num(fields[name], Num(R(0)))
          IN  /\ IsFinite(c)
              /\ fields[name].k = "num" => c = fields[name]
              /\ fields[name].k # "num" => c = Num(R(0))
    /\ AllFinite(baseline.val)
    /\ AllFinite(overtimeCalc.val)
    /\ AllFinite(delayCapexCalc.val)
    /\ baseline.val = ComputeBaseline(Zeroed(fields))
    /\ overtimeCalc.val =
           ComputeOvertimeCalc(Zeroed(fields), ComputeBaseline(Zeroed(fields)))
    /\ delayCapexCalc.val = ComputeDelayCapexCalc(Zeroed(fields))
    /\ \A bad \in Invalid : num(bad, Num(R(0))) = Num(R(0))
    /\ edits <= 1 => \A name \in FieldNames : \A bad \in Invalid :
          LET g == [fields EXCEPT ![name] = bad]
              z == [fields EXCEPT ![name] = Num(R(0))]
          IN  /\ name \in FieldNames \ CapexFields =>
                    ComputeOvertimeCalc(g, ComputeBaseline(g))
                        = ComputeOvertimeCalc(z, ComputeBaseline(z))
              /\ name \in CapexFields \cup {"horizonWeeks"} =>
                    ComputeDelayCapexCalc(g) = ComputeDelayCapexCalc(z)

\* C13 witness: two inputs of the overtime formula are empty and the record
\* on screen is the one of a zero premium and a zero scrap delta.
C13_Witness ==
    /\ decision = "overtime"
    /\ fields.otPremium = Empty
    /\ fields.fatigueScrapDeltaPp = Empty
    /\ isReady
    /\ panel.view = "results"
    /\ active.val.otLaborCost = R(0)
    /\ active.val.scrapDeltaUnits = R(0)

\* C13, the delay-capex formula: an empty lead time counts as 0 weeks.
C13_WitnessCapex ==
    /\ decision = "capex"
    /\ fields.deploymentLeadWeeks = Empty
    /\ fields.annualSavings = Empty
    /\ delayCapexCalc.val.missedBenefitWeeks = R(6)
    /\ delayCapexCalc.val.lostSavingsWithinHorizon = R(0)


\* C14 as stated: whenever the delay-capex record is displayed,
\* 0 <= missedBenefitWeeks <= horizonWeeks, for every lead time the Field can
\* hold, negative ones included.
C14_MissedWithinHorizon ==
    (decision = "capex" /\ isReady /\ panel.view = "results") =>
        /\ RLe(R(0), active.val.missedBenefitWeeks)
        /\ RLe(active.val.missedBenefitWeeks, Val(fields.horizonWeeks))

\* C14, the part that holds: the displayed missed weeks are never negative,
\* and they stay within the horizon whenever the lead time is not negative.
C14_NonNegativeLead ==
    (decision = "capex" /\ isReady /\ panel.view = "results") =>
        /\ RLe(R(0), active.val.missedBenefitWeeks)
        /\ RLe(R(0), Val(fields.deploymentLeadWeeks)) =>
              RLe(active.val.missedBenefitWeeks, Val(fields.horizonWeeks))


C15_WitnessOvertime ==
    /\ decision = "overtime"
    /\ isReady
    /\ fields.horizonWeeks = Num(R(2))
    /\ active.val.totalImpact = R(-1050)

\* C15 needs its readiness condition: with a horizon <= 0 the delay-capex
\* record can hold netImpactPerWeek = 0 next to a non-zero totalImpact.
C15_WitnessNotReady ==
    /\ ~isReady
    /\ delayCapexCalc.val.netImpactPerWeek = R(0)
    /\ delayCapexCalc.val.totalImpact.n # 0


\* C16: an event that changes the decision leaves every input field as it
\* was, and an event that changes the fields changes exactly one of them and
\* leaves the decision as it was.  While the fields stay as they are, the
\* readiness flag and the two memoized records stay as they are and the
\* active record of an implemented decision is that same record: switching
\* away from "overtime" or "capex" and back, with no edit in between, gives
\* the active record and the readiness there were before.
C16_Frame ==
    [][ /\ decision' # decision => fields' = fields
        /\ fields' # fields =>
              /\ decision' = decision
              /\ Cardinality({name \in FieldNames :
                                 fields'[name] # fields[name]}) = 1
        /\ fields' = fields =>
              /\ isReady' = isReady
              /\ overtimeCalc' = overtimeCalc
              /\ delayCapexCalc' = delayCapexCalc
              /\ decision' = "overtime" => active'.val = overtimeCalc.val
              /\ decision' = "capex" => active'.val = delayCapexCalc.val
      ]_vars

\* C16 witness: "overtime" is selected again after a visit to "capex" (an
\* edit was made on either card), and its record is the active one.
C16_Witness ==
    /\ decision = "overtime"
    /\ fields.annualSavings = Num(R(52000))
    /\ fields.otHours = Num(R(4))
    /\ active.val = overtimeCalc.val
    /\ active.val.otLaborCost = R(210)
    /\ panel.view = "results"


\* The inputs the delay-capex formula must not read: the overtime inputs and
\* the common inputs other than horizonWeeks.
NotForCapex == (CommonFields \cup OvertimeFields) \ {"horizonWeeks"}

\* C17: the overtime record is the same whatever value any delay-capex input
\* (capexAmount, annualSavings, deploymentLeadWeeks, costOfCapitalPct) takes,
\* and the delay-capex record is the same whatever value any overtime input
\* or runtimePerWeek, baselineUnitsPerHr, laborRate, overheadPct, sellPrice
\* or cmPct takes; horizonWeeks is read by both records.
C17_Independent ==
    /\ \A name \in CapexFields : \A v \in Commits(name) :
          LET g == [fields EXCEPT ![name] = v]
          IN  ComputeOvertimeCalc(g, ComputeBaseline(g)) = overtimeCalc.val
    /\ \A name \in NotForCapex : \A v \in Commits(name) :
          ComputeDelayCapexCalc([fields EXCEPT ![name] = v])
              = delayCapexCalc.val
    /\ LET g == [Defaults EXCEPT !.horizonWeeks = Num(R(2))]
       IN  /\ ComputeOvertimeCalc(g, ComputeBaseline(g))
                  # ComputeOvertimeCalc(Defaults, ComputeBaseline(Defaults))
           /\ ComputeDelayCapexCalc(g) # ComputeDelayCapexCalc(Defaults)

\* C17 witness: inputs of both cards and the horizon differ from their
\* defaults, and both records have a non-zero headline.
C17_Witness ==
    /\ fields.horizonWeeks = Num(R(2))
    /\ fields.deploymentLeadWeeks = Num(R(-3))
    /\ overtimeCalc.val.totalImpact = R(-1050)
    /\ delayCapexCalc.val.missedBenefitWeeks = R(5)
    /\ delayCapexCalc.val.totalImpact.n < 0

====
